---- MODULE Spec2Model ----
(***************************************************************************)
(* Model of the artifact-capture-and-composition pipeline:                 *)
(*   scripts/run_and_save.py      the figure-capture harness               *)
(*   scripts/run_all.py           the run orchestrator                     *)
(*   scripts/make_montage.py      the montage compositor                   *)
(*   scripts/organize_outputs.py  the output reorganizer                   *)
(* Strings are sequences of one-character strings, so that slug, the       *)
(* filename formatting and the filename pattern are computed character by  *)
(* character, as the code computes them.                                   *)
(***************************************************************************)
EXTENDS Integers, Sequences, FiniteSets, TLC

VARIABLES
    sl,     \* a call of slug / _slug: its argument and the values returned
    gr,     \* a call of compute_grid: its argument and the value returned
    mo,     \* a call of make_montage, directly or through the compositor's main
    fs,     \* the outputs tree: path -> directory or file
    hz,     \* the harness process (run_and_save.main)
    oz,     \* the orchestrator process (run_all.main) and the project tree
    rz      \* the reorganizer process (organize_outputs.main), run twice

vars == <<sl, gr, mo, fs, hz, oz, rz>>

\* what each component leaves alone (fs is stated by each action)
notSl == <<gr, mo, fs, hz, oz, rz>>
notGr == <<sl, mo, fs, hz, oz, rz>>
notMo == <<sl, gr, hz, oz, rz>>
notHz == <<sl, gr, mo, oz, rz>>
notOz == <<sl, gr, rz>>
notRz == <<sl, gr, mo, hz, oz>>

----------------------------------------------------------------------------
(* Bounds of the model *)

\* longest string handed to slug in SpecSlug
MaxLen == 3
\* largest n handed to compute_grid in SpecGrid
MaxN == 60
\* largest figure number a unit registers in SpecHarness
MaxFigs == 3
\* most images handed to make_montage in SpecMontage
MaxImages == 3
\* largest rows and cols handed to make_montage in SpecMontage
MaxGrid == 2

----------------------------------------------------------------------------
(* Characters and strings *)

LowerSeq == <<"a","b","c","d","e","f","g","h","i","j","k","l","m",
              "n","o","p","q","r","s","t","u","v","w","x","y","z">>
UpperSeq == <<"A","B","C","D","E","F","G","H","I","J","K","L","M",
              "N","O","P","Q","R","S","T","U","V","W","X","Y","Z">>
DigitSeq == <<"0","1","2","3","4","5","6","7","8","9">>

Range(f) == {f[i] : i \in DOMAIN f}

LowerChars == Range(LowerSeq)
UpperChars == Range(UpperSeq)
DigitChars == Range(DigitSeq)

\* str.strip() with no argument strips whitespace
Whitespace == {" ", "\t", "\n"}

\* the complement of the class [^a-z0-9_\-]
SlugChars == LowerChars \cup DigitChars \cup {"_", "-"}

\* str.lower() on one character
LowerChar(c) ==
    IF c \in UpperChars
    THEN LowerSeq[CHOOSE i \in DOMAIN UpperSeq : UpperSeq[i] = c]
    ELSE c

\* str.strip()
Strip(s) ==
    LET keep == {i \in DOMAIN s : s[i] \notin Whitespace}
    IN  IF keep = {} THEN <<>>
        ELSE LET lo == CHOOSE i \in keep : \A j \in keep : i <= j
                 hi == CHOOSE i \in keep : \A j \in keep : j <= i
             IN  SubSeq(s, lo, hi)

IsSlugChar(c) == c \in SlugChars

\* str.lower()
Lower(s) == [i \in DOMAIN s |-> LowerChar(s[i])]

\* str.replace(" ", "-")
SpacesToHyphens(s) == [i \in DOMAIN s |-> IF s[i] = " " THEN "-" ELSE s[i]]

\* _slug_rx.sub("", s)
RemoveNonSlug(s) == SelectSeq(s, IsSlugChar)

Misc == <<"m","i","s","c">>

\* organize_outputs.slug
slug(s) ==
    LET s0 == IF s = <<>> THEN Misc ELSE s
    IN  RemoveNonSlug(SpacesToHyphens(Lower(Strip(s0))))

\* run_and_save._slug, a textual copy of slug
harness_slug(s) ==
    LET s0 == IF s = <<>> THEN Misc ELSE s
    IN  RemoveNonSlug(SpacesToHyphens(Lower(Strip(s0))))

\* the characters of the model in code point order, as sorted() compares them
Ascii == <<"\t", "\n", " ", "!", "#", "-", ".">> \o DigitSeq \o UpperSeq
            \o <<"_">> \o LowerSeq

CodePoint(c) == CHOOSE i \in DOMAIN Ascii : Ascii[i] = c

\* a < b for strings, as Python compares them
StrLess(a, b) ==
    \E k \in 1..(Len(a) + 1) :
        /\ k <= Len(b)
        /\ \A j \in 1..(k - 1) : a[j] = b[j]
        /\ (k = Len(a) + 1 \/ CodePoint(a[k]) < CodePoint(b[k]))

\* sorted(S) for a set of strings
RECURSIVE SortedStrs(_)
SortedStrs(S) ==
    IF S = {} THEN <<>>
    ELSE LET lo == CHOOSE x \in S : \A y \in S \ {x} : StrLess(x, y)
         IN  <<lo>> \o SortedStrs(S \ {lo})

\* sorted(S) for a set of integers
RECURSIVE SortedInts(_)
SortedInts(S) ==
    IF S = {} THEN <<>>
    ELSE LET lo == CHOOSE x \in S : \A y \in S : x <= y
         IN  <<lo>> \o SortedInts(S \ {lo})

\* str(n) for n >= 0
RECURSIVE Decimal(_)
Decimal(n) ==
    IF n < 10 THEN <<DigitSeq[n + 1]>>
    ELSE Decimal(n \div 10) \o <<DigitSeq[(n % 10) + 1]>>

\* f"{n:02d}" for n >= 0
Fmt02(n) == IF n < 10 THEN <<"0">> \o Decimal(n) ELSE Decimal(n)

\* s.rstrip('-')
RStripHyphens(s) ==
    LET keep == {i \in DOMAIN s : s[i] # "-"}
    IN  IF keep = {} THEN <<>>
        ELSE SubSeq(s, 1, CHOOSE i \in keep : \A j \in keep : j <= i)

EndsWith(s, suffix) ==
    /\ Len(s) >= Len(suffix)
    /\ SubSeq(s, Len(s) - Len(suffix) + 1, Len(s)) = suffix

StartsWith(s, prefix) ==
    /\ Len(s) >= Len(prefix)
    /\ SubSeq(s, 1, Len(prefix)) = prefix

\* x in s, for strings
Contains(s, x) ==
    \E i \in 0..(Len(s) - Len(x)) : SubSeq(s, i + 1, i + Len(x)) = x

DotPng == <<".", "p", "n", "g">>

SeqsUpTo(S, n) == UNION {[1..k -> S] : k \in 0..n}

----------------------------------------------------------------------------
(* compute_grid *)

\* math.ceil(math.sqrt(n)) for n >= 0
CeilSqrt(n) == CHOOSE c \in 0..n : c * c >= n /\ \A d \in 0..n : d * d >= n => c <= d

\* math.ceil(n / cols) for cols > 0
CeilDiv(n, cols) == (n + cols - 1) \div cols

\* compute_grid with rows and cols returned in the wrong order
compute_grid_swapped(n) ==
    IF n <= 0 THEN <<0, 0>>
    ELSE IF n <= 3 THEN <<1, n>>
    ELSE LET cols == CeilSqrt(n)
             rows == CeilDiv(n, cols)
         IN  <<cols, rows>>

\* compute_grid with rows rounded down: n // cols for ceil(n / cols)
compute_grid_floor(n) ==
    IF n <= 0 THEN <<0, 0>>
    ELSE IF n <= 3 THEN <<1, n>>
    ELSE LET cols == CeilSqrt(n)
             rows == n \div cols
         IN  <<rows, cols>>

compute_grid(n) ==
    IF n <= 0 THEN <<0, 0>>
    ELSE IF n <= 3 THEN <<1, n>>
    ELSE LET cols == CeilSqrt(n)
             rows == CeilDiv(n, cols)
         IN  <<rows, cols>>

----------------------------------------------------------------------------
(* The outputs tree. A path is a sequence of names below the outputs root   *)
(* (<<>> is the root itself); fs maps every existing path to its node.      *)

DirNode == [kind |-> "dir", data |-> <<>>]
FileNode(data) == [kind |-> "file", data |-> data]

Exists(f, p) == p \in DOMAIN f
IsDir(f, p) == p \in DOMAIN f /\ f[p].kind = "dir"
IsFile(f, p) == p \in DOMAIN f /\ f[p].kind = "file"

\* os.path.join(p, name): an empty component names p itself
Join(p, name) == IF name = <<>> THEN p ELSE Append(p, name)

IsPrefix(p, q) == Len(p) <= Len(q) /\ SubSeq(q, 1, Len(p)) = p

Prefixes(p) == {SubSeq(p, 1, k) : k \in 0..Len(p)}

\* os.makedirs(p, exist_ok=True) succeeds unless a file is in the way
CanMakeDirs(f, p) == \A q \in Prefixes(p) : ~IsFile(f, q)

MakeDirs(f, p) == [q \in Prefixes(p) \ DOMAIN f |-> DirNode] @@ f

\* os.listdir(p)
ListDir(f, p) == {q[Len(q)] : q \in {r \in DOMAIN f : Len(r) = Len(p) + 1 /\ IsPrefix(p, r)}}

\* what a file holds: <<i, num>> is figure num of the i-th harness call (0 for
\* a call made alone), <<MontageTag, n>> a montage of n images
MontageTag == -1

\* writing a file at p, replacing the file that may be there
WriteFile(f, p, data) == [q \in DOMAIN f \cup {p} |-> IF q = p THEN FileNode(data) ELSE f[q]]

----------------------------------------------------------------------------
(* Idle values of the components a specification does not run *)

SlIdle == [fn |-> "none", arg |-> <<>>, pc |-> "idle", once |-> <<>>, twice |-> <<>>]
GrIdle == [n |-> 0, pc |-> "idle", ret |-> <<0, 0>>]
NoResult == [status |-> "none", canvas |-> FALSE, size |-> <<0, 0>>, place |-> <<>>]
MoIdle == [entry |-> "none", pc |-> "idle", out |-> <<>>, paths |-> <<>>,
           images |-> <<>>, missing |-> FALSE,
           rows |-> 0, cols |-> 0, tile |-> <<>>, padding |-> 0, labels |-> <<>>,
           label_height |-> 0, res |-> NoResult, out_dir |-> FALSE,
           out_written |-> FALSE]

\* week, base: the script's directory and file name without ".py"; rendered:
\* the figures registered when the unit returned, by figure number; open: those
\* not yet closed; saved: the files written, in order
HzIdle == [pc |-> "idle", tag |-> 0, week |-> <<>>, base |-> <<>>, max_figs |-> 0,
           rendered |-> <<>>, open |-> <<>>, fig_nums |-> <<>>, idx |-> 0,
           used_names |-> {}, task_outdir |-> <<>>, saved |-> <<>>]

\* tree: the project root's directories, each with the base names of its
\* *.py files; selected, exclude: --weeks and --exclude; weeks, scripts: what
\* was discovered; i, w: the positions of the two loops of main; invoked,
\* montaged: the harness calls and build_week_montage calls made so far
OzIdle == [pc |-> "idle", tree |-> <<>>, selected |-> <<>>, exclude |-> {},
           weeks |-> <<>>, scripts |-> <<>>, i |-> 0, w |-> 0,
           invoked |-> <<>>, exits |-> <<>>, montaged |-> <<>>]

\* scripts: the *.py files of the project as (directory name, base name), in
\* the order os.walk meets them; pass: the first or the second run of main;
\* todo: the names of list(os.listdir(OUT)) not yet looked at; pending: the
\* (dirpath, d) pairs of the bottom-up walk not yet looked at; snap: the tree
\* the first run left; log: what the current run did
RzIdle == [pc |-> "idle", scripts |-> <<>>, pass |-> 0, todo |-> {}, pending |-> {},
           snap |-> <<>>, log |-> <<>>]

IdleSl == sl = SlIdle
IdleFs == fs = <<>>
IdleHz == hz = HzIdle
IdleGr == gr = GrIdle
IdleMo == mo = MoIdle
IdleOz == oz = OzIdle
IdleRz == rz = RzIdle

----------------------------------------------------------------------------
(* make_montage and the compositor's main *)

MaxOf(S) == CHOOSE x \in S : \A y \in S : y <= x

\* the label band height make_montage substitutes for one that is <= 0
DefaultLabelHeight == 24

\* make_montage without its capacity assertion
make_montage_unchecked(images, rows, cols, tile_size, padding, labels, label_height) ==
    IF tile_size = <<>> /\ images = <<>>
    THEN [NoResult EXCEPT !.status = "ValueError"]
    ELSE
    IF cols = 0 /\ images # <<>>
    THEN [NoResult EXCEPT !.status = "ZeroDivisionError", !.canvas = TRUE]
    ELSE
    LET ts == IF tile_size = <<>>
              THEN << MaxOf({images[i][1] : i \in DOMAIN images}),
                      MaxOf({images[i][2] : i \in DOMAIN images}) >>
              ELSE tile_size
        tw == ts[1]
        th == ts[2]
        has_labels == labels # <<>>
        lh == IF has_labels /\ label_height <= 0 THEN DefaultLabelHeight ELSE label_height
        band == IF has_labels THEN lh ELSE 0
        out_w == cols * tw + (cols + 1) * padding
        out_h == rows * (th + band) + (rows + 1) * padding
    IN  [status |-> "ok", canvas |-> TRUE, size |-> <<out_w, out_h>>,
         place |-> [i \in DOMAIN images |->
                      LET idx == i - 1
                          r == idx \div cols
                          c == idx % cols
                      IN  << padding + c * (tw + padding),
                             padding + r * (th + band + padding) >>]]

\* the origin given to image idx (0-based) when the label band is left out of
\* the row pitch
CellOriginNoBand(idx, cols, tw, th, band, padding) ==
    << padding + (idx % cols) * (tw + padding),
       padding + (idx \div cols) * (th + padding) >>

\* the loop body's r, c, x, y for image idx (0-based): r = idx // cols,
\* c = idx % cols, x = padding + c * (tw + padding),
\* y = padding + r * (th + band + padding)
CellOrigin(idx, cols, tw, th, band, padding) ==
    LET r == idx \div cols
        c == idx % cols
    IN  << padding + c * (tw + padding),
           padding + r * (th + band + padding) >>

\* make_montage(images, rows, cols, tile_size, padding, labels, label_height):
\* images are given by their (width, height); tile_size <<>> is None; labels
\* <<>> is None or the empty list. The value is the outcome: the exception
\* raised, or the canvas's size and the origin of every pasted image.
make_montage(images, rows, cols, tile_size, padding, labels, label_height) ==
    IF ~(Len(images) <= rows * cols)
    THEN [NoResult EXCEPT !.status = "AssertionError"]
    ELSE
    IF tile_size = <<>> /\ images = <<>>
    THEN [NoResult EXCEPT !.status = "ValueError"]
    ELSE
    LET ts == IF tile_size = <<>>
              THEN << MaxOf({images[i][1] : i \in DOMAIN images}),
                      MaxOf({images[i][2] : i \in DOMAIN images}) >>
              ELSE tile_size
        tw == ts[1]
        th == ts[2]
        has_labels == labels # <<>>
        lh == IF has_labels /\ label_height <= 0 THEN DefaultLabelHeight ELSE label_height
        band == IF has_labels THEN lh ELSE 0
        out_w == cols * tw + (cols + 1) * padding
        out_h == rows * (th + band) + (rows + 1) * padding
    IN  [status |-> "ok", canvas |-> TRUE, size |-> <<out_w, out_h>>,
         place |-> [i \in DOMAIN images |->
                      CellOrigin(i - 1, cols, tw, th, band, padding)]]

----------------------------------------------------------------------------
(* SpecMontage: make_montage called directly ("api") or through the         *)
(* compositor's main ("cli")                                                *)

ImageSizes == { <<1, 1>>, <<3, 1>>, <<2, 4>> }
TileSizes == { <<>>, <<2, 3>> }
Paddings == {0, 1, 16}
LabelHeights == {-1, 0, 26}

\* --out of SpecMontage's command lines
MontageOut == << <<"o">>, <<"m", ".", "p", "n", "g">> >>

LabelsFor(n) == { <<>>, [i \in 1..n |-> "L"] }

MontageInit ==
    /\ \E images \in SeqsUpTo(ImageSizes, MaxImages) :
         mo \in [entry : {"api", "cli"}, pc : {"start"}, out : {MontageOut},
                 paths : {<<>>}, images : {images},
                 missing : BOOLEAN,
                 rows : 0..MaxGrid, cols : 0..MaxGrid, tile : TileSizes,
                 padding : Paddings, labels : LabelsFor(Len(images)),
                 label_height : LabelHeights, res : {NoResult},
                 out_dir : {FALSE}, out_written : {FALSE}]
    \* main's argument parser wants at least one image path (nargs='+'), and
    \* only the command line names paths that may be missing
    /\ mo.entry = "cli" => mo.images # <<>>
    /\ mo.entry = "api" => ~mo.missing
    /\ fs = <<>>
    /\ IdleSl /\ IdleGr /\ IdleHz /\ IdleOz /\ IdleRz

Compose(m) ==
    make_montage(m.images, m.rows, m.cols, m.tile, m.padding, m.labels, m.label_height)

\* a direct call of make_montage
ApiCall ==
    /\ mo.entry = "api" /\ mo.pc = "start"
    /\ mo' = [mo EXCEPT !.pc = "returned", !.res = Compose(mo)]
    /\ UNCHANGED fs
    /\ UNCHANGED notMo

\* main: os.makedirs(os.path.dirname(args.out), exist_ok=True)
MainMakedirs ==
    /\ mo.entry = "cli" /\ mo.pc = "start"
    /\ LET dir == SubSeq(mo.out, 1, Len(mo.out) - 1)
       IN  IF CanMakeDirs(fs, dir)
           THEN fs' = MakeDirs(fs, dir) /\ mo' = [mo EXCEPT !.pc = "load", !.out_dir = TRUE]
           ELSE UNCHANGED fs /\ mo' = [mo EXCEPT !.pc = "failed"]
    /\ UNCHANGED notMo

\* main: ims = load_images(args.images); a missing path raises FileNotFoundError
MainLoad ==
    /\ mo.entry = "cli" /\ mo.pc = "load"
    /\ LET missing == mo.missing \/ \E i \in DOMAIN mo.paths : ~Exists(fs, mo.paths[i])
       IN  mo' = [mo EXCEPT !.pc = IF missing THEN "failed" ELSE "compose",
                            !.res = IF missing
                                    THEN [NoResult EXCEPT !.status = "FileNotFoundError"]
                                    ELSE NoResult]
    /\ UNCHANGED fs
    /\ UNCHANGED notMo

\* main: montage = make_montage(...)
MainCompose ==
    /\ mo.entry = "cli" /\ mo.pc = "compose"
    /\ LET res == Compose(mo)
       IN  mo' = [mo EXCEPT !.pc = IF res.status = "ok" THEN "save" ELSE "failed",
                            !.res = res]
    /\ UNCHANGED fs
    /\ UNCHANGED notMo

\* main: montage.save(args.out)
MainSave ==
    /\ mo.entry = "cli" /\ mo.pc = "save"
    /\ IF IsDir(fs, mo.out)
       THEN UNCHANGED fs /\ mo' = [mo EXCEPT !.pc = "failed"]
       ELSE /\ fs' = WriteFile(fs, mo.out, <<MontageTag, Len(mo.images)>>)
            /\ mo' = [mo EXCEPT !.pc = "done", !.out_written = TRUE]
    /\ UNCHANGED notMo

MontageNext == ApiCall \/ MainMakedirs \/ MainLoad \/ MainCompose \/ MainSave

SpecMontage == MontageInit /\ [][MontageNext]_vars

----------------------------------------------------------------------------
(* The figure-capture harness, run_and_save.main *)

\* label[:64]
LabelCap == 64

\* a figure: its suptitle (<<>> when unset or empty) and its axes' titles
Fig(sup, ax) == [sup |-> sup, ax |-> ax]

\* the first axes title that is non-empty after strip(), stripped; else <<>>
FirstAxesTitle(ax) ==
    LET good == {i \in DOMAIN ax : Strip(ax[i]) # <<>>}
    IN  IF good = {} THEN <<>>
        ELSE Strip(ax[CHOOSE i \in good : \A j \in good : i <= j])

\* _derive_fig_label(fig, default_base)
derive_fig_label(fig, default_base) ==
    LET t1 == Strip(fig.sup)
        t2 == IF t1 # <<>> THEN t1 ELSE FirstAxesTitle(fig.ax)
        t3 == IF t2 # <<>> THEN t2 ELSE default_base
    IN  harness_slug(t3)

\* the label of the file name: dropped when it repeats the script's base name,
\* cut to 64 characters
FileLabel(fig, base) ==
    LET script_base == harness_slug(base)
        label == derive_fig_label(fig, script_base)
        l1 == IF label = script_base THEN <<>> ELSE label
    IN  IF Len(l1) > LabelCap THEN RStripHyphens(SubSeq(l1, 1, LabelCap)) ELSE l1

\* the file name without the figure's index
FileNameNoIndex(idx, label, dup) ==
    (IF label # <<>> THEN <<"-">> \o label ELSE <<>>)
        \o (IF dup THEN <<"-", "d", "u", "p">> ELSE <<>>) \o DotPng

\* f"{idx:02d}{('-' + label) if label else ''}.png", or the same with "-dup"
FileName(idx, label, dup) ==
    Fmt02(idx) \o (IF label # <<>> THEN <<"-">> \o label ELSE <<>>)
        \o (IF dup THEN <<"-", "d", "u", "p">> ELSE <<>>) \o DotPng

\* the loop 'while fname in used_names: fname = <the -dup name>': it leaves
\* with the first name when that is free and with the -dup name when that is
\* free; with both taken it assigns the same name forever
ResolveName(idx, label, used) ==
    IF FileName(idx, label, FALSE) \notin used
    THEN [hung |-> FALSE, name |-> FileName(idx, label, FALSE)]
    ELSE IF FileName(idx, label, TRUE) \notin used
    THEN [hung |-> FALSE, name |-> FileName(idx, label, TRUE)]
    ELSE [hung |-> TRUE, name |-> FileName(idx, label, TRUE)]

\* sorted(figs) without the cut to max_figs
SelectAllFigNums(figs, max_figs) == SortedInts(figs)

\* sorted(figs)[: max(0, int(args.max_figs))]
SelectFigNums(figs, max_figs) ==
    LET all == SortedInts(figs)
        k == IF max_figs > 0 THEN max_figs ELSE 0
    IN  SubSeq(all, 1, IF k < Len(all) THEN k ELSE Len(all))

\* main up to the unit's execution: os.makedirs(args.outdir), chdir
HStart ==
    /\ hz.pc = "start"
    /\ IF CanMakeDirs(fs, <<>>)
       THEN fs' = MakeDirs(fs, <<>>) /\ hz' = [hz EXCEPT !.pc = "run"]
       ELSE UNCHANGED fs /\ hz' = [hz EXCEPT !.pc = "io_error"]
    /\ UNCHANGED notHz

\* runpy.run_path: the unit raises, and main ends with its exception ...
HRunRaises ==
    /\ hz.pc = "run"
    /\ hz' = [hz EXCEPT !.pc = "unit_raised"]
    /\ UNCHANGED fs
    /\ UNCHANGED notHz

\* the figures a unit may have registered when it returns
LongTitle == [i \in 1..(LabelCap + 2) |-> IF i >= LabelCap THEN "-" ELSE "a"]

FigKinds ==
    { Fig(<<>>, <<>>),
      Fig(LongTitle, <<>>),
      Fig(<<>>, << <<" ">>, <<"E","F"," ","#","1">> >>),
      Fig(<<"e","f","-","1">>, << <<"x">> >>) }

\* ... or it returns with figures figs registered
HRunReturns(figs) ==
    /\ hz.pc = "run"
    /\ hz' = [hz EXCEPT !.pc = "collect", !.rendered = figs, !.open = figs]
    /\ UNCHANGED fs
    /\ UNCHANGED notHz

\* main from the output directory to the loop's start
HCollect ==
    /\ hz.pc = "collect"
    /\ LET base == harness_slug(hz.base)
           parent == harness_slug(IF hz.week = <<>> THEN Misc ELSE hz.week)
           task_outdir == Join(Join(<<>>, parent), base)
           fig_nums == SelectFigNums(DOMAIN hz.open, hz.max_figs)
       IN  IF ~CanMakeDirs(fs, task_outdir)
           THEN UNCHANGED fs /\ hz' = [hz EXCEPT !.pc = "io_error"]
           ELSE /\ fs' = MakeDirs(fs, task_outdir)
                /\ hz' = [hz EXCEPT
                            !.task_outdir = task_outdir,
                            !.pc = IF DOMAIN hz.open = {} \/ fig_nums = <<>>
                                   THEN "done" ELSE "save",
                            !.fig_nums = IF DOMAIN hz.open = {} THEN <<>> ELSE fig_nums,
                            !.idx = 1]
    /\ UNCHANGED notHz

\* one iteration of the loop over fig_nums
HSave ==
    /\ hz.pc = "save"
    /\ LET num == hz.fig_nums[hz.idx]
           label == FileLabel(hz.open[num], hz.base)
           r == ResolveName(hz.idx, label, hz.used_names)
           out == Join(hz.task_outdir, r.name)
       IN  IF r.hung
           THEN UNCHANGED fs /\ hz' = [hz EXCEPT !.pc = "hung"]
           ELSE IF IsDir(fs, out)
           THEN /\ UNCHANGED fs
                /\ hz' = [hz EXCEPT !.pc = "io_error",
                                    !.used_names = hz.used_names \cup {r.name}]
           ELSE /\ fs' = WriteFile(fs, out, <<hz.tag, num>>)
                /\ hz' = [hz EXCEPT
                            !.used_names = hz.used_names \cup {r.name},
                            !.saved = Append(hz.saved,
                                         [name |-> r.name, num |-> num, label |-> label]),
                            !.open = [n \in DOMAIN hz.open \ {num} |-> hz.open[n]],
                            !.idx = hz.idx + 1,
                            !.pc = IF hz.idx = Len(hz.fig_nums) THEN "done" ELSE "save"]
    /\ UNCHANGED notHz

----------------------------------------------------------------------------
(* SpecHarness: one call of the harness on an empty outputs tree *)

UnitNames == { <<"u">>, <<"E","F"," ","#","1">>, <<"!">> }

FigMaps == UNION {[nums -> FigKinds] : nums \in SUBSET (1..MaxFigs)}

HarnessInit ==
    /\ hz \in [pc : {"start"}, tag : {0}, week : {<<"w","e","e","k","-","a">>},
               base : UnitNames, max_figs : (-1)..(MaxFigs + 1),
               rendered : {<<>>}, open : {<<>>}, fig_nums : {<<>>}, idx : {0},
               used_names : {{}}, task_outdir : {<<>>}, saved : {<<>>}]
    /\ fs = <<>>
    /\ IdleSl /\ IdleGr /\ IdleMo /\ IdleOz /\ IdleRz

HRun == HRunRaises \/ \E figs \in FigMaps : HRunReturns(figs)

HarnessNext == HStart \/ HRun \/ HCollect \/ HSave

SpecHarness == HarnessInit /\ [][HarnessNext]_vars

----------------------------------------------------------------------------
(* The run orchestrator, run_all.main *)

\* the number of units, over all directories, of a project tree of Spec
MaxUnits == 2

\* "--max-figs", "2"
OrchMaxFigs == 2
\* "--padding", "16"
OrchPadding == 16
\* "--label-height", "26"
OrchLabelHeight == 26

WeekPrefix == <<"w","e","e","k","-">>
PyExt == <<".","p","y">>
Overview == <<"o","v","e","r","v","i","e","w">>
OverviewPng == Overview \o DotPng
Fig1Png == <<"f","i","g","1">> \o DotPng
CourseraQuestion ==
    <<"c","o","u","r","s","e","r","a","_","q","u","e","s","t","i","o","n">>

\* str.upper() on one character
UpperChar(c) ==
    IF c \in LowerChars
    THEN UpperSeq[CHOOSE i \in DOMAIN LowerSeq : LowerSeq[i] = c]
    ELSE c

IsLetter(c) == c \in LowerChars \cup UpperChars

\* str.title()
Title(s) ==
    [i \in DOMAIN s |->
        IF i > 1 /\ IsLetter(s[i - 1]) THEN LowerChar(s[i]) ELSE UpperChar(s[i])]

\* .replace('-', ' ').replace('_', ' ').title()
MontageLabel(d) ==
    Title([i \in DOMAIN d |-> IF d[i] \in {"-", "_"} THEN " " ELSE d[i]])

\* discover_week_dirs(selected): the selected names that are directories, in
\* the order given; without a selection the directories named week-*, sorted
discover_week_dirs(tree, selected) ==
    IF selected # <<>>
    THEN SelectSeq(selected, LAMBDA w : w \in DOMAIN tree)
    ELSE SelectSeq(SortedStrs(DOMAIN tree), LAMBDA d : StartsWith(d, WeekPrefix))

\* exclude and any(exc in name for exc in exclude)
Excluded(name, exclude) == \E exc \in exclude : Contains(name, exc)

\* sorted(glob.glob("<w>/*.py")) less the excluded ones, as (week, base name)
ScriptsOf(tree, w, exclude) ==
    LET files == SortedStrs({b \o PyExt : b \in tree[w]})
        bases == [i \in DOMAIN files |-> SubSeq(files[i], 1, Len(files[i]) - Len(PyExt))]
        kept == SelectSeq(bases, LAMBDA b : ~Excluded(b, exclude))
    IN  [i \in DOMAIN kept |-> [week |-> w, base |-> kept[i]]]

\* discover_scripts(weeks, include=None, exclude)
RECURSIVE discover_scripts(_, _, _)
discover_scripts(tree, weeks, exclude) ==
    IF weeks = <<>> THEN <<>>
    ELSE ScriptsOf(tree, Head(weeks), exclude) \o discover_scripts(tree, Tail(weeks), exclude)

\* run() gives the call back at once, as Popen would
run_returned_at_once(h) == TRUE

\* run(): subprocess.run returns when the child process has ended, whatever
\* its exit status (check=False)
run_returned(h) == h.pc \in {"done", "unit_raised", "io_error"}

\* where main goes after the harness loop is at position i
AfterUnits(i, scripts, weeks) ==
    IF i <= Len(scripts) THEN "units"
    ELSE IF weeks # <<>> THEN "montage" ELSE "done"

\* main up to the first loop
ODiscover ==
    /\ oz.pc = "start"
    /\ LET weeks == discover_week_dirs(oz.tree, oz.selected)
           scripts == discover_scripts(oz.tree, weeks, oz.exclude)
       IN  /\ oz' = [oz EXCEPT !.weeks = weeks, !.scripts = scripts, !.i = 1, !.w = 1,
                               !.pc = AfterUnits(1, scripts, weeks)]
           /\ fs' = MakeDirs(fs, <<>>)
    /\ UNCHANGED <<mo, hz>>
    /\ UNCHANGED notOz

\* the first loop's body up to the start of the child process (the extra
\* arguments given to eigenfaces.py only reach the unit, which is opaque)
OInvoke ==
    /\ oz.pc = "units"
    /\ hz' = [HzIdle EXCEPT !.pc = "start", !.tag = oz.i,
                            !.week = oz.scripts[oz.i].week,
                            !.base = oz.scripts[oz.i].base,
                            !.max_figs = OrchMaxFigs]
    /\ oz' = [oz EXCEPT !.pc = "wait", !.invoked = Append(oz.invoked, oz.i)]
    /\ UNCHANGED <<mo, fs>>
    /\ UNCHANGED notOz

\* run() with check=True: a non-zero exit status raises in main
OReturnChecked ==
    /\ oz.pc = "wait"
    /\ run_returned(hz)
    /\ oz' = [oz EXCEPT !.i = oz.i + 1, !.exits = Append(oz.exits, hz.pc),
                        !.pc = IF hz.pc = "done"
                               THEN AfterUnits(oz.i + 1, oz.scripts, oz.weeks)
                               ELSE "crashed"]
    /\ UNCHANGED <<mo, fs, hz>>
    /\ UNCHANGED notOz

\* run() returns and the loop goes on
OReturn ==
    /\ oz.pc = "wait"
    /\ run_returned(hz)
    /\ oz' = [oz EXCEPT !.i = oz.i + 1, !.exits = Append(oz.exits, hz.pc),
                        !.pc = AfterUnits(oz.i + 1, oz.scripts, oz.weeks)]
    /\ UNCHANGED <<mo, fs, hz>>
    /\ UNCHANGED notOz

\* the image build_week_montage takes from a unit's directory: fig1.png, else
\* the first of sorted(glob("*.png")); <<>> when there is none
ChooseImage(f, out_subdir) ==
    IF Exists(f, Append(out_subdir, Fig1Png)) THEN Append(out_subdir, Fig1Png)
    ELSE LET pngs == {n \in ListDir(f, out_subdir) : EndsWith(n, DotPng) /\ n[1] # "."}
         IN  IF pngs = {} THEN <<>> ELSE Append(out_subdir, SortedStrs(pngs)[1])

\* the directories build_week_montage takes an image from, in order
MontageDirs(f, week_out, exclude_in_montage) ==
    SelectSeq(SortedStrs(ListDir(f, week_out)),
              LAMBDA d : /\ Lower(d) # Overview
                         /\ ~Excluded(d, exclude_in_montage)
                         /\ ChooseImage(f, Append(week_out, d)) # <<>>)

\* the size of the image a file holds (the renderer decides it)
LoadedSize(data) == <<IF data[2] > 0 THEN data[2] ELSE 1, 2>>

AfterMontage(w, weeks) == IF w <= Len(weeks) THEN "montage" ELSE "done"

\* the second loop's body: build_week_montage(w) up to the start of the
\* compositor, or to its return when there is nothing to compose
OBuildMontage ==
    /\ oz.pc = "montage"
    /\ LET week == oz.weeks[oz.w]
           week_out == <<week>>
           dirs == MontageDirs(fs, week_out, {CourseraQuestion})
           images == [i \in DOMAIN dirs |-> ChooseImage(fs, Append(week_out, dirs[i]))]
           labels == [i \in DOMAIN dirs |-> MontageLabel(dirs[i])]
           grid == compute_grid(Len(images))
           out_path == week_out \o <<Overview, OverviewPng>>
           skip == [oz EXCEPT !.montaged = Append(oz.montaged, week), !.w = oz.w + 1,
                              !.pc = AfterMontage(oz.w + 1, oz.weeks)]
       IN  IF ~IsDir(fs, week_out) \/ images = <<>> \/ grid[1] = 0
           THEN oz' = skip /\ UNCHANGED <<fs, mo>>
           ELSE IF ~CanMakeDirs(fs, week_out \o <<Overview>>)
           THEN oz' = [oz EXCEPT !.pc = "crashed"] /\ UNCHANGED <<fs, mo>>
           ELSE /\ fs' = MakeDirs(fs, week_out \o <<Overview>>)
                /\ oz' = [oz EXCEPT !.montaged = Append(oz.montaged, week),
                                    !.pc = "wait_montage"]
                /\ mo' = [MoIdle EXCEPT
                            !.entry = "cli", !.pc = "start", !.out = out_path,
                            !.paths = images,
                            !.images = [i \in DOMAIN images |-> LoadedSize(fs[images[i]].data)],
                            !.rows = grid[1], !.cols = grid[2],
                            !.padding = OrchPadding, !.labels = labels,
                            !.label_height = OrchLabelHeight]
    /\ UNCHANGED hz
    /\ UNCHANGED notOz

\* run() returns from the compositor and the second loop goes on
OMontageReturn ==
    /\ oz.pc = "wait_montage"
    /\ mo.pc \in {"done", "failed"}
    /\ oz' = [oz EXCEPT !.w = oz.w + 1, !.pc = AfterMontage(oz.w + 1, oz.weeks)]
    /\ UNCHANGED <<mo, fs, hz>>
    /\ UNCHANGED notOz

----------------------------------------------------------------------------
(* Spec: one run of the orchestrator on a project tree, the outputs         *)
(* directory not yet there                                                  *)

WeekA == <<"w","e","e","k","-","a">>
WeekB == <<"w","e","e","k","-","B">>
Extra == <<"x">>

OrchDirs == {WeekA, WeekB, Extra}
OrchUnits == { <<"u">>, <<"V"," ","w">>, CourseraQuestion }

Trees ==
    {tr \in [OrchDirs -> SUBSET OrchUnits] :
        Cardinality({<<d, b>> \in OrchDirs \X OrchUnits : b \in tr[d]}) <= MaxUnits}

Selections == { <<>>, <<Extra, <<"n","o">>, WeekB>> }
Excludes == { {}, {<<"q","u","e","s","t">>} }

\* what a unit run under the orchestrator leaves registered
OrchFigMaps ==
    { <<>>,
      (1 :> Fig(<<>>, <<>>)),
      (1 :> Fig(<<"e","f","-","1">>, <<>>)) @@ (2 :> Fig(<<>>, <<>>)) @@ (4 :> Fig(<<>>, <<>>)) }

OrchInit ==
    /\ oz \in [pc : {"start"}, tree : Trees, selected : Selections, exclude : Excludes,
               weeks : {<<>>}, scripts : {<<>>}, i : {0}, w : {0},
               invoked : {<<>>}, exits : {<<>>}, montaged : {<<>>}]
    /\ fs = <<>>
    /\ IdleSl /\ IdleGr /\ IdleMo /\ IdleHz /\ IdleRz

HRunOrch == HRunRaises \/ \E figs \in OrchFigMaps : HRunReturns(figs)

Next ==
    \/ ODiscover \/ OInvoke \/ OReturn \/ OBuildMontage \/ OMontageReturn
    \/ HStart \/ HRunOrch \/ HCollect \/ HSave
    \/ MainMakedirs \/ MainLoad \/ MainCompose \/ MainSave

Spec == OrchInit /\ [][Next]_vars

----------------------------------------------------------------------------
(* The output reorganizer, organize_outputs.main *)

FigTag == <<"-", "f", "i", "g">>

\* pattern.match(fn) for ^(?P<base>.+)-fig(?P<num>\d+)\.png$: the positions i
\* at which "-fig" starts after a non-empty base, digits and ".png" following
FlatSplits(fn) ==
    {i \in 2..Len(fn) :
        /\ i + Len(FigTag) + Len(DotPng) <= Len(fn)
        /\ SubSeq(fn, i, i + Len(FigTag) - 1) = FigTag
        /\ EndsWith(fn, DotPng)
        /\ \A j \in (i + Len(FigTag))..(Len(fn) - Len(DotPng)) : fn[j] \in DigitChars}

IsFlatName(fn) == FlatSplits(fn) # {}

\* m.group("base"), m.group("num"): .+ is greedy
FlatBase(fn) == SubSeq(fn, 1, MaxOf(FlatSplits(fn)) - 1)
FlatNum(fn) == SubSeq(fn, MaxOf(FlatSplits(fn)) + Len(FigTag), Len(fn) - Len(DotPng))

\* build_script_index: index.setdefault(base, path), the first one met wins;
\* the value kept here is the name of the script's directory
HasScript(scripts, base) == \E i \in DOMAIN scripts : scripts[i][2] = base

IndexParent(scripts, base) ==
    scripts[CHOOSE i \in DOMAIN scripts :
                /\ scripts[i][2] = base
                /\ \A j \in DOMAIN scripts : scripts[j][2] = base => i <= j][1]

\* the directory a flat file goes to: OUT/slug(parent)/slug(base)
DestDir(scripts, base) ==
    LET parent == IF HasScript(scripts, base) /\ IndexParent(scripts, base) # <<>>
                  THEN IndexParent(scripts, base) ELSE Misc
    IN  Join(Join(<<>>, slug(parent)), slug(base))

\* the paths at or below p
Subtree(f, p) == {q \in DOMAIN f : IsPrefix(p, q)}

\* os.rename(src, dst) of a file or a directory with all it holds, to a path
\* that is free or holds a file to replace
RenameTree(f, src, dst) ==
    LET moved == Subtree(f, src)
        kept == (DOMAIN f \ moved) \ {dst}
        new == {dst \o SubSeq(q, Len(src) + 1, Len(q)) : q \in moved}
    IN  [q \in kept \cup new |->
            IF q \in new /\ IsPrefix(dst, q) /\ (src \o SubSeq(q, Len(dst) + 1, Len(q))) \in moved
            THEN f[src \o SubSeq(q, Len(dst) + 1, Len(q))]
            ELSE f[q]]

Parent(p) == SubSeq(p, 1, Len(p) - 1)

\* shutil.move(src, dst): into dst when dst is a directory, unless the name is
\* taken there; else onto dst, replacing a file by a file. ok is FALSE when it
\* raises, and nothing has changed then
ShMove(f, src, dst) ==
    LET real_dst == IF IsDir(f, dst) THEN Append(dst, src[Len(src)]) ELSE dst
    IN  IF \/ ~Exists(f, src)
           \/ IsDir(f, dst) /\ Exists(f, real_dst)
           \/ ~IsDir(f, Parent(real_dst))
           \/ IsDir(f, src) /\ Exists(f, real_dst)
           \/ IsPrefix(src, real_dst)
        THEN [ok |-> FALSE, fs |-> f]
        ELSE [ok |-> TRUE, fs |-> RenameTree(f, src, real_dst)]

\* shutil.move that lands beside dst when dst is taken, instead of replacing
\* or entering it
ShMoveOverwriting(f, src, dst) ==
    IF ~Exists(f, src) \/ ~IsDir(f, Parent(dst)) \/ IsPrefix(src, dst)
    THEN [ok |-> FALSE, fs |-> f]
    ELSE [ok |-> TRUE, fs |-> RenameTree([q \in DOMAIN f \ (Subtree(f, dst) \ {dst}) |-> f[q]],
                                         src, dst)]

\* the orders os.listdir may give the names of a set
Orders(S) == {o \in [1..Cardinality(S) -> S] : \A i, j \in DOMAIN o : i # j => o[i] # o[j]}

\* the merge of old_path into new_path: every child in turn by shutil.move,
\* up to the first one that raises; then os.rmdir(old_path)
RECURSIVE MoveChildren(_, _, _, _)
MoveChildren(f, old_path, new_path, order) ==
    IF order = <<>>
    THEN [ok |-> TRUE, fs |-> [q \in DOMAIN f \ {old_path} |-> f[q]]]
    ELSE LET r == ShMove(f, Append(old_path, Head(order)), Join(new_path, Head(order)))
         IN  IF r.ok THEN MoveChildren(r.fs, old_path, new_path, Tail(order))
             ELSE [ok |-> FALSE, fs |-> f]

\* the (dirpath, d) pairs os.walk(OUT, topdown=False) yields
WalkPairs(f) == {<<Parent(q), q[Len(q)]>> : q \in {r \in DOMAIN f : r # <<>> /\ f[r].kind = "dir"}}

\* bottom-up: a directory's pairs come after those of everything below it
Ready(pair, pending) ==
    \A other \in pending : ~(Len(other[1]) > Len(pair[1]) /\ IsPrefix(pair[1], other[1]))

\* main up to the first loop
RStart ==
    /\ rz.pc = "start"
    /\ IF ~IsDir(fs, <<>>)
       THEN rz' = [rz EXCEPT !.pc = "end"]
       ELSE rz' = [rz EXCEPT !.pc = "relocate", !.todo = ListDir(fs, <<>>)]
    /\ UNCHANGED fs
    /\ UNCHANGED notRz

\* one iteration of the first loop, for the name fn
RRelocate(fn) ==
    /\ rz.pc = "relocate"
    /\ fn \in rz.todo
    /\ LET full == <<fn>>
           rest == rz.todo \ {fn}
       IN  IF ~IsFlatName(fn) \/ ~IsFile(fs, full)
           THEN UNCHANGED fs /\ rz' = [rz EXCEPT !.todo = rest]
           ELSE LET dest_dir == DestDir(rz.scripts, FlatBase(fn))
                    dest == Append(dest_dir, <<"f","i","g">> \o FlatNum(fn) \o DotPng)
                IN  IF ~CanMakeDirs(fs, dest_dir)
                    THEN UNCHANGED fs /\ rz' = [rz EXCEPT !.pc = "crashed"]
                    ELSE LET r == ShMove(MakeDirs(fs, dest_dir), full, dest)
                         IN  /\ fs' = r.fs
                             /\ rz' = [rz EXCEPT
                                         !.todo = rest,
                                         !.log = IF r.ok THEN Append(rz.log, <<"moved", full>>)
                                                 ELSE rz.log]
    /\ UNCHANGED notRz

\* the walk of the second loop starts
RBeginWalk ==
    /\ rz.pc = "relocate"
    /\ rz.todo = {}
    /\ rz' = [rz EXCEPT !.pc = "normalize", !.pending = WalkPairs(fs)]
    /\ UNCHANGED fs
    /\ UNCHANGED notRz

\* one iteration of the second loop, for directory d of dirpath; the children
\* of a merged directory are met in the order given
RNormalize(dirpath, d, order) ==
    /\ rz.pc = "normalize"
    /\ <<dirpath, d>> \in rz.pending
    /\ Ready(<<dirpath, d>>, rz.pending)
    /\ LET old_path == Append(dirpath, d)
           new_name == slug(d)
           new_path == Join(dirpath, new_name)
           rest == rz.pending \ {<<dirpath, d>>}
       IN  /\ order \in Orders(ListDir(fs, old_path))
           /\ IF new_name = d \/ ~Exists(fs, old_path)
              THEN UNCHANGED fs /\ rz' = [rz EXCEPT !.pending = rest]
              ELSE IF ~Exists(fs, new_path)
              THEN /\ fs' = RenameTree(fs, old_path, new_path)
                   /\ rz' = [rz EXCEPT !.pending = rest,
                                       !.log = Append(rz.log, <<"renamed", old_path>>)]
              ELSE LET r == MoveChildren(fs, old_path, new_path, order)
                   IN  /\ fs' = r.fs
                       /\ rz' = [rz EXCEPT
                                   !.pending = rest,
                                   !.log = IF r.ok THEN Append(rz.log, <<"merged", old_path>>)
                                           ELSE rz.log]
    /\ UNCHANGED notRz

\* main returns; the second run starts on what the first one left
REndPass ==
    /\ \/ rz.pc = "normalize" /\ rz.pending = {}
       \/ rz.pc = "end"
    /\ IF rz.pass = 1
       THEN rz' = [rz EXCEPT !.pc = "start", !.pass = 2, !.snap = fs,
                             !.log = <<>>, !.todo = {}]
       ELSE rz' = [rz EXCEPT !.pc = "done"]
    /\ UNCHANGED fs
    /\ UNCHANGED notRz

----------------------------------------------------------------------------
(* SpecReorg: the reorganizer run twice on an outputs tree *)

\* most files of an initial outputs tree
MaxFiles == 2

DirA == <<"a">>
DirUpperA == <<"A">>
DirBang == <<"!">>
DirS == <<"s">>

\* the directories an initial tree may have
TreeDirs ==
    { <<DirA>>, <<DirUpperA>>, <<DirBang>>,
      <<DirA, DirS>>, <<DirUpperA, DirS>>, <<DirBang, DirUpperA>>, <<DirUpperA, DirBang>> }

PlainFile == <<"f">>
FlatFile == <<"x", "-", "f", "i", "g", "1", ".", "p", "n", "g">>

\* the files an initial tree may have
TreeFiles == {Append(d, n) : d \in TreeDirs \cup {<<>>}, n \in {PlainFile, FlatFile}}

\* the tree with the files of F, each holding its own first path, and the
\* directories of D
TreeOf(F, D) ==
    [q \in (UNION {Prefixes(p) : p \in F \cup D}) \cup {<<>>} |->
        IF q \in F THEN FileNode(q) ELSE DirNode]

InitialTrees ==
    { TreeOf(F, D) : F \in {G \in SUBSET TreeFiles : Cardinality(G) <= MaxFiles},
                     D \in {{}} \cup {{d} : d \in TreeDirs} }

ScriptTrees == { <<>>, << <<<<"A", " ", "b">>, <<"x">>>>, <<<<"c">>, <<"x">>>> >> }

ReorgInit ==
    /\ fs \in InitialTrees \cup {<<>>}
    /\ rz \in [pc : {"start"}, scripts : ScriptTrees, pass : {1}, todo : {{}},
               pending : {{}}, snap : {<<>>}, log : {<<>>}]
    /\ IdleSl /\ IdleGr /\ IdleMo /\ IdleHz /\ IdleOz

ReorgNext ==
    \/ RStart
    \/ \E fn \in rz.todo : RRelocate(fn)
    \/ RBeginWalk
    \/ \E pair \in rz.pending :
          \E order \in Orders(ListDir(fs, Append(pair[1], pair[2]))) :
              RNormalize(pair[1], pair[2], order)
    \/ REndPass

SpecReorg == ReorgInit /\ [][ReorgNext]_vars

----------------------------------------------------------------------------
(* SpecSlug: slug applied to a string, then to its own result *)

\* characters the strings of SpecSlug are made of: one of every class
SlugAlphabet == {"a", "M", " ", "\t", "!", "-", "1"}

SlugExamples == { <<"M","y"," ","L","a","b","e","l","!">> }

SlugInit ==
    /\ sl \in [fn : {"slug", "_slug"},
               arg : SeqsUpTo(SlugAlphabet, MaxLen) \cup SlugExamples,
               pc : {"call"}, once : {<<>>}, twice : {<<>>}]
    /\ IdleGr /\ IdleMo /\ IdleFs /\ IdleHz /\ IdleOz /\ IdleRz

ApplySlug(fn, s) == IF fn = "slug" THEN slug(s) ELSE harness_slug(s)

SlugOnce ==
    /\ sl.pc = "call"
    /\ sl' = [sl EXCEPT !.pc = "again", !.once = ApplySlug(sl.fn, sl.arg)]
    /\ UNCHANGED notSl

SlugTwice ==
    /\ sl.pc = "again"
    /\ sl' = [sl EXCEPT !.pc = "done", !.twice = ApplySlug(sl.fn, sl.once)]
    /\ UNCHANGED notSl

SlugNext == SlugOnce \/ SlugTwice

SpecSlug == SlugInit /\ [][SlugNext]_vars

----------------------------------------------------------------------------
(* SpecGrid: compute_grid applied to n *)

GridInit ==
    /\ gr \in [n : 0..MaxN, pc : {"call"}, ret : {<<0, 0>>}]
    /\ IdleSl /\ IdleMo /\ IdleFs /\ IdleHz /\ IdleOz /\ IdleRz

GridCall ==
    /\ gr.pc = "call"
    /\ gr' = [gr EXCEPT !.pc = "done", !.ret = compute_grid(gr.n)]
    /\ UNCHANGED notGr

GridNext == GridCall

SpecGrid == GridInit /\ [][GridNext]_vars

----------------------------------------------------------------------------
(* SpecCapacity: compute_grid on its own, and the orchestrator's montage     *)
(* step on a collection whose outputs directory earlier runs have filled     *)

\* most unit directories under the collection's outputs directory
MaxDirs == 5

\* the unit directories: a, b, c, ...
LeftoverNames == { <<LowerSeq[i]>> : i \in 1..MaxDirs }

\* what a unit directory holds: it is absent, empty, or holds one artifact
\* under the preferred or under a descriptive name
LeftoverKinds == {"absent", "empty", "fig1", "named"}

NamedPng == <<"0", "1", "-", "t">> \o DotPng

\* the outputs tree of collection week-a with unit directories as k tells
LeftoverTree(k) ==
    LET dirs == {d \in LeftoverNames : k[d] # "absent"}
        files == {<<WeekA, d, Fig1Png>> : d \in {e \in dirs : k[e] = "fig1"}}
                 \cup {<<WeekA, d, NamedPng>> : d \in {e \in dirs : k[e] = "named"}}
    IN  [q \in {<<>>, <<WeekA>>} \cup {<<WeekA, d>> : d \in dirs} \cup files |->
            IF q \in files THEN FileNode(<<1, 1>>) ELSE DirNode]

\* the orchestrator about to start in a project whose only collection,
\* week-a, has no script left
LeftoverInit ==
    /\ oz = [OzIdle EXCEPT !.pc = "start", !.tree = (WeekA :> {})]
    /\ \E k \in [LeftoverNames -> LeftoverKinds] : fs = LeftoverTree(k)
    /\ IdleSl /\ IdleGr /\ IdleMo /\ IdleHz /\ IdleRz

CapacityInit == GridInit \/ LeftoverInit

CapacityNext ==
    \/ GridCall
    \/ ODiscover \/ OBuildMontage \/ OMontageReturn
    \/ MainMakedirs \/ MainLoad \/ MainCompose \/ MainSave

SpecCapacity == CapacityInit /\ [][CapacityNext]_vars

----------------------------------------------------------------------------
(* C1 *)

\* C1: slug is total and idempotent: slug(slug(s)) = slug(s) for every
\* string s, slug("") = "misc" and slug("My Label!") = "my-label", for both
\* copies of the function.
C1_SlugIdempotent ==
    /\ sl.pc = "done" => sl.twice = sl.once
    /\ (sl.pc = "again" /\ sl.arg = <<>>) => sl.once = Misc
    /\ (sl.pc = "again" /\ sl.arg = <<"M","y"," ","L","a","b","e","l","!">>)
          => sl.once = <<"m","y","-","l","a","b","e","l">>

----------------------------------------------------------------------------
(* C4 *)

\* C4: compute_grid(0) = (0,0), compute_grid(3) = (1,3), compute_grid(4) =
\* (2,2), compute_grid(5) = (3,2), compute_grid(10) = (4,3).
C4_GridExamples_Original ==
    gr.pc = "done" =>
        /\ gr.n = 0 => gr.ret = <<0, 0>>
        /\ gr.n = 3 => gr.ret = <<1, 3>>
        /\ gr.n = 4 => gr.ret = <<2, 2>>
        /\ gr.n = 5 => gr.ret = <<3, 2>>
        /\ gr.n = 10 => gr.ret = <<4, 3>>

\* C4 (amended): compute_grid(0) = (0,0), compute_grid(3) = (1,3),
\* compute_grid(4) = (2,2), compute_grid(5) = (2,3), compute_grid(10) = (3,4).
C4_GridExamples ==
    gr.pc = "done" =>
        /\ gr.n = 0 => gr.ret = <<0, 0>>
        /\ gr.n = 3 => gr.ret = <<1, 3>>
        /\ gr.n = 4 => gr.ret = <<2, 2>>
        /\ gr.n = 5 => gr.ret = <<2, 3>>
        /\ gr.n = 10 => gr.ret = <<3, 4>>

C4_Witness == gr.pc = "done" /\ gr.n = 10 /\ gr.ret = <<3, 4>>

----------------------------------------------------------------------------
(* C2 *)

\* the canvas size the claim states for a call
ClaimedSize(m) ==
    LET tw == IF m.tile = <<>>
              THEN MaxOf({m.images[i][1] : i \in DOMAIN m.images}) ELSE m.tile[1]
        th == IF m.tile = <<>>
              THEN MaxOf({m.images[i][2] : i \in DOMAIN m.images}) ELSE m.tile[2]
        lh == IF m.labels = <<>> THEN 0
              ELSE IF m.label_height <= 0 THEN 24 ELSE m.label_height
    IN  << m.cols * tw + (m.cols + 1) * m.padding,
           m.rows * (th + lh) + (m.rows + 1) * m.padding >>

\* C2: for every sequence of images and rows*cols >= len(images), with or
\* without a tile size, make_montage returns a canvas of exactly the stated
\* size.
C2_CanvasSize ==
    (mo.entry = "api" /\ mo.pc = "returned" /\ mo.rows * mo.cols >= Len(mo.images))
        => (mo.res.status = "ok" /\ mo.res.size = ClaimedSize(mo))

----------------------------------------------------------------------------
(* C3 *)

\* C3: when rows*cols < len(images), make_montage fails with the layout
\* error before any canvas is created, and through main no output image is
\* ever written.
C3_InvalidLayout ==
    (mo.rows * mo.cols < Len(mo.images)) =>
        /\ ~mo.out_written
        /\ ~Exists(fs, mo.out)
        /\ ~mo.res.canvas
        /\ mo.pc = "returned" => mo.res.status = "AssertionError"
        /\ mo.pc \notin {"save", "done"}
        /\ (mo.pc = "failed" /\ ~mo.missing) => mo.res.status = "AssertionError"

C3_Witness ==
    /\ mo.entry = "cli" /\ mo.pc = "failed" /\ ~mo.missing
    /\ mo.rows = 1 /\ mo.cols = 2 /\ Len(mo.images) = 3
    /\ mo.res.status = "AssertionError" /\ mo.out_dir /\ ~mo.out_written
    /\ IsDir(fs, SubSeq(mo.out, 1, Len(mo.out) - 1))

----------------------------------------------------------------------------
(* C5 *)

\* the digits a file name starts with
IndexPrefix(name) ==
    LET stop == {i \in DOMAIN name : name[i] \notin DigitChars}
    IN  IF stop = {} THEN name
        ELSE SubSeq(name, 1, (CHOOSE i \in stop : \A j \in stop : i <= j) - 1)

FilesOf(f) == {q \in DOMAIN f : f[q].kind = "file"}

\* the i-th smallest figure number of a set
IthFig(nums, i) == CHOOSE n \in nums : Cardinality({x \in nums : x < n}) = i - 1

\* C5: a unit that returns with m canvases registered, under max_figs = k >= 0,
\* gets exactly min(m, k) files written; file i carries index i (two digits)
\* and is saved from the i-th canvas in ascending order; with m = 0 nothing
\* is written and the call ends without an error.
C5_SavedCount ==
    LET m == Cardinality(DOMAIN hz.rendered)
        n == IF m < hz.max_figs THEN m ELSE hz.max_figs
    IN  /\ hz.pc \notin {"io_error", "hung"}
        /\ (hz.pc = "done" /\ hz.max_figs >= 0) =>
              /\ Len(hz.saved) = n
              /\ Cardinality(FilesOf(fs)) = n
              /\ \A i \in 1..n :
                    /\ IndexPrefix(hz.saved[i].name) = Fmt02(i)
                    /\ hz.saved[i].num = IthFig(DOMAIN hz.rendered, i)
                    /\ IsFile(fs, Join(hz.task_outdir, hz.saved[i].name))
                    /\ fs[Join(hz.task_outdir, hz.saved[i].name)].data
                          = <<hz.tag, IthFig(DOMAIN hz.rendered, i)>>

\* three canvases (numbered 1 and 3 among them) and max_figs = 2
C5_Witness ==
    /\ hz.pc = "done" /\ hz.max_figs = 2
    /\ DOMAIN hz.rendered = {1, 2, 3}
    /\ Len(hz.saved) = 2 /\ Cardinality(FilesOf(fs)) = 2

----------------------------------------------------------------------------
(* C6 *)

\* C6: in one harness call any two saved canvases have distinct file names,
\* every saved canvas is still on disk under its own name (none overwritten),
\* and the retry loop on a name collision never runs forever.
C6_DistinctNames ==
    /\ hz.pc # "hung"
    /\ \A i, j \in DOMAIN hz.saved : i # j => hz.saved[i].name # hz.saved[j].name
    /\ \A i \in DOMAIN hz.saved :
          /\ IsFile(fs, Join(hz.task_outdir, hz.saved[i].name))
          /\ fs[Join(hz.task_outdir, hz.saved[i].name)].data = <<hz.tag, hz.saved[i].num>>

\* three canvases saved under one label, which two different titles
\* slugify to
C6_Witness ==
    /\ hz.pc = "done" /\ Len(hz.saved) = 3
    /\ hz.saved[1].label = hz.saved[2].label /\ hz.saved[1].label # <<>>
    /\ hz.rendered[1] # hz.rendered[2]
    /\ hz.saved[3].label = hz.saved[2].label

----------------------------------------------------------------------------
(* C8 *)

HarnessRunning == hz.pc \in {"start", "run", "collect", "save"}

\* the files the i-th harness call has written
ArtifactsOf(i) == {q \in FilesOf(fs) : fs[q].data[1] = i}

\* main has ended, or has a step to take, or waits for a child process that
\* has a step to take
NotStuck ==
    \/ oz.pc \in {"start", "units", "montage", "done"}
    \/ oz.pc = "wait" /\ (HarnessRunning \/ run_returned(hz))
    \/ oz.pc = "wait_montage" /\ mo.pc \in {"start", "load", "compose", "save", "done", "failed"}

\* C8: a unit that raises does not stop the run: the run never ends early and
\* is never stuck; when it ends the harness has been invoked once for every
\* discovered unit, in discovery order, build_week_montage has been called
\* for every collection, and no file was written for a unit that raised.
C8_FailureIsolated ==
    /\ oz.pc # "crashed"
    /\ NotStuck
    /\ oz.pc = "done" =>
          /\ oz.invoked = [i \in 1..Len(oz.scripts) |-> i]
          /\ Len(oz.exits) = Len(oz.scripts)
          /\ oz.montaged = oz.weeks
    /\ \A i \in DOMAIN oz.exits : oz.exits[i] = "unit_raised" => ArtifactsOf(i) = {}
    /\ (hz.pc = "unit_raised" /\ hz.tag > 0) => ArtifactsOf(hz.tag) = {}

\* the first of two units raised, the second one's files and its collection's
\* montage are there
C8_Witness ==
    /\ oz.pc = "done" /\ Len(oz.scripts) = 2
    /\ oz.exits = <<"unit_raised", "done">>
    /\ ArtifactsOf(2) # {}
    /\ Len(oz.montaged) = 2
    /\ \E q \in FilesOf(fs) : fs[q].data[1] = MontageTag

----------------------------------------------------------------------------
(* C9 *)

MontageStarted == oz.pc \in {"montage", "wait_montage", "done"} \/ oz.montaged # <<>>

\* C9: the run is sequential: a harness process runs only while main waits
\* for it, it is the one of the unit main is at, and every earlier unit's
\* process has ended; files of a unit are written only by its own running
\* process; the montage step starts only when every unit's process has ended.
C9_Sequential ==
    /\ HarnessRunning =>
          /\ oz.pc = "wait"
          /\ hz.tag = oz.i
          /\ Len(oz.exits) = oz.i - 1
    /\ \A q \in FilesOf(fs) : fs[q].data[1] \in {MontageTag} \cup 1..oz.i
    /\ (oz.pc = "units" \/ MontageStarted) =>
          \A j \in 1..Len(oz.scripts) : j >= oz.i => ArtifactsOf(j) = {}
    /\ MontageStarted =>
          /\ ~HarnessRunning
          /\ Len(oz.exits) = Len(oz.scripts)
          /\ oz.i = Len(oz.scripts) + 1
    /\ mo.pc # "idle" => MontageStarted

\* the second unit's process is saving while the first one's files are there
C9_Witness ==
    /\ hz.pc = "save" /\ hz.tag = 2 /\ hz.idx = 2
    /\ ArtifactsOf(1) # {} /\ ArtifactsOf(2) # {}
    /\ oz.exits = <<"done">>

----------------------------------------------------------------------------
(* C10 *)

\* a unit of collection w, not excluded from montages, whose directory
\* outputs/<slug(w)>/<slug(unit)>/ holds a file the harness wrote
HasArtifact(w) ==
    \E k \in DOMAIN oz.scripts :
        /\ oz.scripts[k].week = w
        /\ ~Excluded(harness_slug(oz.scripts[k].base), {CourseraQuestion})
        /\ \E q \in FilesOf(fs) :
              /\ SubSeq(q, 1, Len(q) - 1)
                    = Join(Join(<<>>, harness_slug(w)), harness_slug(oz.scripts[k].base))
              /\ fs[q].data[1] >= 1

\* C10: from an empty outputs tree, for every accepted collection w the run
\* ends with outputs/<slug(w)>/overview/overview.png there if and only if a
\* unit directory of w that is not montage-excluded holds an artifact.
C10_MontageIffArtifact ==
    oz.pc = "done" =>
        \A k \in DOMAIN oz.weeks :
            IsFile(fs, <<harness_slug(oz.weeks[k]), Overview, OverviewPng>>)
                <=> HasArtifact(oz.weeks[k])

----------------------------------------------------------------------------
(* C7 *)

\* C7: the reorganizer is idempotent: a second run right after a first one
\* moves, renames and merges nothing and leaves the tree as the first run
\* left it, whatever the initial tree.
C7_Idempotent ==
    rz.pass = 2 => (fs = rz.snap /\ rz.log = <<>>)

----------------------------------------------------------------------------
(* C11 *)

\* make_montage was entered and has returned or raised
MontageCalled == mo.res.status \notin {"none", "FileNotFoundError"}

\* the claim's tw, th and lh for a call: the resolved tile size, and the label
\* band, which is 0 without labels
ClaimedTile(m) ==
    LET tw == IF m.tile = <<>>
              THEN MaxOf({m.images[i][1] : i \in DOMAIN m.images}) ELSE m.tile[1]
        th == IF m.tile = <<>>
              THEN MaxOf({m.images[i][2] : i \in DOMAIN m.images}) ELSE m.tile[2]
        lh == IF m.labels = <<>> THEN 0
              ELSE IF m.label_height <= 0 THEN 24 ELSE m.label_height
    IN  [tw |-> tw, th |-> th, lh |-> lh]

\* the origin the claim states for image i, counted from 0
ClaimedOrigin(m, i) ==
    LET t == ClaimedTile(m)
    IN  << m.padding + (i % m.cols) * (t.tw + m.padding),
           m.padding + (i \div m.cols) * (t.th + t.lh + m.padding) >>

\* the rectangle of width w and height h at origin a lies inside a canvas of
\* the given size
InsideCanvas(a, w, h, size) ==
    /\ a[1] >= 0 /\ a[2] >= 0
    /\ a[1] + w <= size[1]
    /\ a[2] + h <= size[2]

\* the rectangles of width w and height h at origins a and b are at least gap
\* pixels apart along one axis
Apart(a, b, w, h, gap) ==
    \/ a[1] + w + gap <= b[1] \/ b[1] + w + gap <= a[1]
    \/ a[2] + h + gap <= b[2] \/ b[2] + h + gap <= a[2]

\* C11: for padding >= 1 and rows*cols >= len(images), make_montage places
\* image i at (padding + (i % cols)*(tw+padding),
\* padding + (i // cols)*(th+lh+padding)); the tw x (th+lh) rectangle there
\* lies inside the canvas and is at least padding pixels away from the
\* rectangle of every other image.
C11_Placement ==
    (/\ MontageCalled
     /\ mo.padding >= 1
     /\ mo.rows * mo.cols >= Len(mo.images)
     /\ mo.images # <<>>)
        => /\ mo.res.status = "ok"
           /\ DOMAIN mo.res.place = DOMAIN mo.images
           /\ \A i \in DOMAIN mo.images :
                 LET t == ClaimedTile(mo)
                 IN  /\ mo.res.place[i] = ClaimedOrigin(mo, i - 1)
                     /\ InsideCanvas(mo.res.place[i], t.tw, t.th + t.lh, mo.res.size)
                     /\ \A j \in DOMAIN mo.images \ {i} :
                           Apart(mo.res.place[i], mo.res.place[j],
                                 t.tw, t.th + t.lh, mo.padding)

\* three labelled images on a 2 x 2 grid with tile 2 x 3, band 26 and padding
\* 16: the third one starts the second row
C11_Witness ==
    /\ MontageCalled /\ mo.res.status = "ok"
    /\ mo.rows = 2 /\ mo.cols = 2 /\ Len(mo.images) = 3
    /\ mo.tile = <<2, 3>> /\ mo.padding = 16
    /\ mo.labels # <<>> /\ mo.label_height = 26
    /\ mo.res.place[2] = <<34, 16>>
    /\ mo.res.place[3] = <<16, 61>>
    /\ mo.res.size = <<52, 106>>

----------------------------------------------------------------------------
(* C12 *)

\* the second loop is at directory D = dirpath/d, whose slug differs from d
\* and names a sibling directory S that exists
MergeCase(dirpath, d) ==
    /\ rz.pc = "normalize"
    /\ <<dirpath, d>> \in rz.pending
    /\ slug(d) # d /\ slug(d) # <<>>
    /\ IsDir(fs, Append(dirpath, d))
    /\ IsDir(fs, Append(dirpath, slug(d)))

\* the files at or below directory p, by their path relative to p
FilesBelow(f, p) ==
    {SubSeq(q, Len(p) + 1, Len(q)) : q \in {r \in FilesOf(f) : IsPrefix(p, r)}}

\* C12: the step that handles a directory D whose slug exists as a sibling S
\* merges: afterwards D is gone, and every file that was in D or in S is
\* under S at the same relative path with the content it had, same-named
\* files and sub-directories included.
C12_MergeKeepsAll ==
    [][\A pair \in rz.pending :
          (MergeCase(pair[1], pair[2]) /\ pair \notin rz'.pending) =>
              LET D == Append(pair[1], pair[2])
                  S == Append(pair[1], slug(pair[2]))
              IN  /\ ~Exists(fs', D)
                  /\ \A rel \in FilesBelow(fs, D) :
                        IsFile(fs', S \o rel) /\ fs'[S \o rel].data = fs[D \o rel].data
                  /\ \A rel \in FilesBelow(fs, S) :
                        IsFile(fs', S \o rel) /\ fs'[S \o rel].data = fs[S \o rel].data
      ]_vars

----------------------------------------------------------------------------
(* C13 *)

\* a grid g = (rows, cols) has room for n images and no empty row
GridFits(g, n) ==
    /\ g[1] >= 1 /\ g[2] >= 1
    /\ g[1] * g[2] >= n
    /\ (g[1] - 1) * g[2] < n

\* C13: for every n >= 1, compute_grid(n) = (rows, cols) has rows >= 1,
\* cols >= 1, rows*cols >= n and (rows-1)*cols < n; so the montage call the
\* orchestrator issues, with n chosen images and n labels, never fails the
\* compositor's capacity check.
C13_GridCapacity ==
    /\ (gr.pc = "done" /\ gr.n >= 1) => GridFits(gr.ret, gr.n)
    /\ oz.pc = "wait_montage" =>
          /\ Len(mo.images) >= 1
          /\ Len(mo.labels) = Len(mo.images)
          /\ GridFits(<<mo.rows, mo.cols>>, Len(mo.images))
          /\ mo.res.status # "AssertionError"

\* five unit directories with an artifact each: the compositor was called
\* with a 2 x 3 grid and wrote the montage
C13_Witness ==
    /\ oz.pc = "wait_montage" /\ mo.pc = "done"
    /\ Len(mo.images) = 5 /\ Len(mo.labels) = 5
    /\ mo.rows = 2 /\ mo.cols = 3
    /\ mo.res.status = "ok" /\ mo.out_written
    /\ IsFile(fs, <<WeekA, Overview, OverviewPng>>)

====
